---- MODULE Spec2Model ----
(***************************************************************************)
(* Model of the batch orchestration engine of landingsite-screenshot:      *)
(* the ScreenshotQueue of queue-processor.js (processBatch, processNext,   *)
(* processId, getBatchStatus) driven by the batch endpoints of             *)
(* api-server.js (POST /api/batch, GET /api/batch/:batchId/status).        *)
(*                                                                         *)
(* JavaScript runs the handlers on one thread: a handler, the continuation *)
(* of processId after its await, and a .finally callback each run to       *)
(* completion, so each is one action.  The continuation of processId and   *)
(* the .finally callback of the same job are separate jobs of the          *)
(* microtask queue, so they are separate actions.                          *)
(*                                                                         *)
(* Outside the model: faults of the file system (fs.mkdirSync of the       *)
(* output directory succeeds), and request bodies whose concurrency or     *)
(* retries is not an integer.                                              *)
(***************************************************************************)
EXTENDS Integers, Sequences, FiniteSets, TLC

VARIABLES
    now,            \* the last reading of Date.now()
    queues,         \* the ScreenshotQueue instances, in order of construction
    runs,           \* the processBatch invocations: closure state and jobs
    protoStatuses,  \* ScreenshotQueue.prototype.batchStatuses
    res,            \* the last HTTP response sent
    cap,            \* the captureScreenshot call under observation
    cli,            \* the process running cli.js
    shared          \* two sectioned captures and the temp directory they share

vars == <<now, queues, runs, protoStatuses, res, cap, cli, shared>>

(***************************************************************************)
(* Bounds of the model.                                                    *)
(***************************************************************************)
MaxClock   == 2     \* Date.now() reads 1..MaxClock
MaxBatches == 1     \* accepted batch submissions
MaxJobs    == 3     \* identifiers submitted, summed over all batches
MaxConc    == 2     \* largest concurrency of a request body
MaxRetries == 3     \* largest retries of a request body

(***************************************************************************)
(* JavaScript values.                                                      *)
(***************************************************************************)
Null == <<>>                 \* null / undefined / absent property
Some(x) == <<x>>

Str(s) == [t |-> "string", v |-> s]
Num(s) == [t |-> "number", v |-> s]     \* v: the decimal rendering

Digits == <<"0", "1", "2", "3", "4", "5", "6", "7", "8", "9">>

RECURSIVE toString(_)
toString(n) ==
    IF n < 10 THEN Digits[n + 1]
    ELSE toString(n \div 10) \o Digits[(n % 10) + 1]

\* `${id}` of a template literal
Interpolate(val) == val.v

IsString(val) == val.t = "string"

(***************************************************************************)
(* Inputs.                                                                 *)
(***************************************************************************)
Arr(s) == [t |-> "array", elems |-> s]
Undefined == [t |-> "undefined"]

\* the id lists of length n: distinct strings, one string repeated, and a
\* list whose last element is the number 42
Distinct(n) == [p \in 1..n |-> Str("x" \o toString(p))]
Repeated(n) == [p \in 1..n |-> Str("x1")]
WithNumber(n) == [p \in 1..n |-> IF p = n THEN Num("42") ELSE Str("x" \o toString(p))]

IdLists ==
    {<<>>} \cup UNION {{Distinct(n), Repeated(n), WithNumber(n)} : n \in 1..MaxJobs}

\* the ids property of a request body: absent, a string, or an array
IdsInputs == {Undefined, Str(""), Str("x1")} \cup {Arr(s) : s \in IdLists}

Bodies ==
    [ids : IdsInputs,
     concurrency : {Null} \cup {Some(c) : c \in 0..MaxConc},
     retries : {Null} \cup {Some(r) : r \in (-1)..MaxRetries}]

Errors == {"NavigationFailed", "RenderTimeout"}

\* what one call of captureScreenshot settles with: a success result, a
\* failure result { success: false, error }, or a rejection with an Error
Outcomes ==
    {[kind |-> "ok", error |-> ""]}
        \cup [kind : {"fail", "throw"}, error : Errors]

\* !ids
Falsy(val) ==
    \/ val.t = "undefined"
    \/ val.t = "string" /\ val.v = ""

IsArray(val) == val.t = "array"

(***************************************************************************)
(* queue-processor.js                                                      *)
(***************************************************************************)
\* constructor(concurrency = 1, retries = 3)
NewQueue(concurrency, retries) ==
    [concurrency |-> concurrency,
     retries |-> retries,
     activeJobs |-> 0,
     batchStatuses |-> <<>>]

\* the record processBatch stores under batchId
NewRecord(batchId, ids, t) ==
    [id |-> batchId,
     status |-> "processing",
     total |-> Len(ids),
     completed |-> 0,
     successful |-> 0,
     failed |-> 0,
     startTime |-> t,
     endTime |-> Null,
     duration |-> Null,
     results |-> [success |-> <<>>, failed |-> <<>>]]

\* path.join('./screenshots', `${id}.png`)
OutputPath(id) == "screenshots/" \o Interpolate(id) \o ".png"

\* processId(batchId, id, 0) up to its await: the first capture is started
StartJob(id) ==
    [id |-> id,
     attempt |-> 0,
     calls |-> 1,
     phase |-> "capturing"]

\* mutant: the batch is marked completed without an endTime
MarkCompletedNoEndTime(status, t) ==
    [status EXCEPT !.status = "completed"]

\* the branch of processNext that marks the batch completed
MarkCompleted(status, t) ==
    [status EXCEPT !.status = "completed",
                   !.endTime = Some(t),
                   !.duration = Some(t - status.startTime)]

\* mutant: the completion check ignores the operations still in flight
NoActiveJobsIgnored(q) == TRUE

\* this.activeJobs === 0
NoActiveJobs(q) == q.activeJobs = 0

\* mutant: the admission gate closes one operation too early
AtMaxConcurrencyTooEarly(q) == q.activeJobs + 1 >= q.concurrency

\* mutant: the admission gate lets one operation too many through
AtMaxConcurrencyOffByOne(q) == q.activeJobs > q.concurrency

\* this.activeJobs >= this.concurrency
AtMaxConcurrency(q) == q.activeJobs >= q.concurrency

\* processNext of one processBatch closure r on queue instance q; t is the
\* reading of Date.now() if the batch completes in this call
RECURSIVE processNext(_, _, _)
processNext(q, r, t) ==
    IF Len(r.queue) = 0
    THEN IF NoActiveJobs(q)
         THEN <<[q EXCEPT !.batchStatuses[r.batchId] = MarkCompleted(@, t)], r>>
         ELSE <<q, r>>
    ELSE IF AtMaxConcurrency(q)
    THEN <<q, r>>
    ELSE processNext([q EXCEPT !.activeJobs = @ + 1],
                     [r EXCEPT !.queue = Tail(@),
                               !.jobs = Append(@, StartJob(Head(r.queue)))],
                     t)

\* the list without the later occurrences of an element
RECURSIVE Dedup(_)
Dedup(s) ==
    IF s = <<>> THEN <<>>
    ELSE LET front == Dedup(SubSeq(s, 1, Len(s) - 1))
             last == s[Len(s)]
         IN  IF \E p \in 1..Len(front) : front[p] = last
             THEN front ELSE Append(front, last)

\* mutant: an identifier listed several times is queued once
processBatchDedup(q, i, batchId, ids, tStart, tEnd) ==
    processNext(
        [q EXCEPT !.batchStatuses =
            (batchId :> NewRecord(batchId, ids, tStart)) @@ q.batchStatuses],
        [inst |-> i, batchId |-> batchId, queue |-> Dedup(ids), jobs |-> <<>>],
        tEnd)

Reverse(s) == [p \in 1..Len(s) |-> s[Len(s) + 1 - p]]

\* mutant: the pending queue is the id list in reverse order
processBatchReversed(q, i, batchId, ids, tStart, tEnd) ==
    processNext(
        [q EXCEPT !.batchStatuses =
            (batchId :> NewRecord(batchId, ids, tStart)) @@ q.batchStatuses],
        [inst |-> i, batchId |-> batchId, queue |-> Reverse(ids), jobs |-> <<>>],
        tEnd)

\* processBatch(batchId, ids) on queue instance q, by queue index i
processBatch(q, i, batchId, ids, tStart, tEnd) ==
    processNext(
        [q EXCEPT !.batchStatuses =
            (batchId :> NewRecord(batchId, ids, tStart)) @@ q.batchStatuses],
        [inst |-> i, batchId |-> batchId, queue |-> ids, jobs |-> <<>>],
        tEnd)

\* mutant: the success entry carries the attempt index, counted from 0
RecordSuccessAttemptIndex(status, job) ==
    [status EXCEPT
        !.results.success =
            Append(@, [id |-> job.id, path |-> OutputPath(job.id),
                       attempts |-> job.attempt]),
        !.successful = @ + 1,
        !.completed = @ + 1]

\* the success branch of processId
RecordSuccess(status, job) ==
    [status EXCEPT
        !.results.success =
            Append(@, [id |-> job.id, path |-> OutputPath(job.id),
                       attempts |-> job.attempt + 1]),
        !.successful = @ + 1,
        !.completed = @ + 1]

\* mutant: a failure is appended and counted as failed but not as completed
RecordFailureNotCompleted(status, job, error) ==
    [status EXCEPT
        !.results.failed =
            Append(@, [id |-> job.id, error |-> error,
                       attempts |-> job.attempt + 1]),
        !.failed = @ + 1]

\* mutant: the failed entry carries the attempt index, counted from 0
RecordFailureAttemptIndex(status, job, error) ==
    [status EXCEPT
        !.results.failed =
            Append(@, [id |-> job.id, error |-> error,
                       attempts |-> job.attempt]),
        !.failed = @ + 1,
        !.completed = @ + 1]

RecordFailure(status, job, error) ==
    [status EXCEPT
        !.results.failed =
            Append(@, [id |-> job.id, error |-> error,
                       attempts |-> job.attempt + 1]),
        !.failed = @ + 1,
        !.completed = @ + 1]

\* mutant: a failed attempt is never retried
MayRetryNever(q, job) == FALSE

\* mutant: the retry test allows one attempt more
MayRetryOnceMore(q, job) == job.attempt < q.retries

\* attempt < this.retries - 1
MayRetry(q, job) == job.attempt < q.retries - 1

\* mutant: a retry gives the concurrency slot back before the next attempt
processIdReleaseOnRetry(q, batchId, job, outcome) ==
    IF outcome.kind = "ok"
    THEN <<[q EXCEPT !.batchStatuses[batchId] = RecordSuccess(@, job)],
           [job EXCEPT !.phase = "settled"]>>
    ELSE IF MayRetry(q, job)
    THEN <<[q EXCEPT !.activeJobs = @ - 1],
           [job EXCEPT !.attempt = @ + 1, !.calls = @ + 1]>>
    ELSE <<[q EXCEPT !.batchStatuses[batchId] =
                RecordFailure(@, job, outcome.error)],
           [job EXCEPT !.phase = "settled"]>>

\* processId after its await, for the outcome of captureScreenshot: the
\* pair of the queue instance and the job afterwards
processId(q, batchId, job, outcome) ==
    IF outcome.kind = "ok"
    THEN <<[q EXCEPT !.batchStatuses[batchId] = RecordSuccess(@, job)],
           [job EXCEPT !.phase = "settled"]>>
    ELSE IF MayRetry(q, job)
    THEN <<q, [job EXCEPT !.attempt = @ + 1, !.calls = @ + 1]>>
    ELSE <<[q EXCEPT !.batchStatuses[batchId] =
                RecordFailure(@, job, outcome.error)],
           [job EXCEPT !.phase = "settled"]>>

\* The properties every object literal inherits from Object.prototype, as far
\* as the requests of the model name them: table[key] finds them too.
ObjectPrototype == [constructor |-> [t |-> "function", v |-> "Object"]]

\* table[key] of a table created as {}
Lookup(table, key) ==
    IF key \in DOMAIN table THEN table[key]
    ELSE IF key \in DOMAIN ObjectPrototype THEN ObjectPrototype[key]
    ELSE Null

\* static getBatchStatus(batchId):
\* ScreenshotQueue.prototype.batchStatuses[batchId] || null
getBatchStatus(batchId) == Lookup(protoStatuses, batchId)

(***************************************************************************)
(* captureScreenshot: the nine definitions of landingsite-screenshot.js    *)
(* and of the unnamed files part_002, part_003 and part_004.  Each is      *)
(*     let browser; try { steps } catch { failure } finally { close }      *)
(* A step is one awaited operation, or one group of awaited operations     *)
(* that the definition treats alike; it resolves or it throws.             *)
(***************************************************************************)
MaxHeight == 5      \* largest templateHeight option besides the default
MaxSection == 3     \* largest sectionHeight option besides the default
MaxNavRetries == 2  \* largest maxRetries option
MaxMeasure == 6     \* the measured heights are 0, 50, ..., 50 * MaxMeasure

DefaultTemplateHeight == 8295
DefaultSectionHeight == 2000

\* a step whose fault reaches the catch block of captureScreenshot
Op(o) == [op |-> o, swallowed |-> FALSE]
\* mutant: the fault of such a step is thrown on
QuietRethrown(o) == [op |-> o, swallowed |-> FALSE]

\* a step inside its own try/catch or followed by .catch: the fault is logged
Quiet(o) == [op |-> o, swallowed |-> TRUE]

\* teardown: how the finally block calls browser.close()
\*   "tryCatch"  try { await browser.close() } catch (err) { warn }
\*   "await"     await browser.close()
\*   "dotCatch"  await browser.close().catch(warn)
CaptureDefs == <<
    [name |-> "landingsite-screenshot.js:12", teardown |-> "tryCatch",
     steps |-> <<Op("launch"), Op("newPage"), Op("setup"), Quiet("navigation"),
                 Op("scroll"), Op("resize"), Op("screenshot"),
                 Op("pageClose")>>],
    [name |-> "landingsite-screenshot.js:230", teardown |-> "await",
     steps |-> <<Op("launch"), Op("newPage"), Op("setup"), Op("navigation"),
                 Op("scroll"), Op("rankedProbe"), Op("resize"),
                 Op("screenshot")>>],
    [name |-> "landingsite-screenshot.js:526", teardown |-> "await",
     steps |-> <<Op("launch"), Op("newPage"), Op("setup"), Op("navigation"),
                 Op("scroll"), Op("probe"), Op("resize"), Op("screenshot")>>],
    [name |-> "landingsite-screenshot.js:709", teardown |-> "await",
     steps |-> <<Op("launch"), Op("newPage"), Op("setup"), Op("navigation"),
                 Op("wait"), Op("probe"), Op("resize"), Op("screenshot")>>],
    [name |-> "landingsite-screenshot.js:829", teardown |-> "dotCatch",
     steps |-> <<Op("launch"), Op("newPage"), Op("setup"),
                 Op("navigationRetry"),
                 Quiet("scroll"), Quiet("probe"), Quiet("resize"),
                 Op("screenshot")>>],
    [name |-> "unnamed/part_002:17", teardown |-> "await",
     steps |-> <<Op("launch"), Op("newPage"), Op("setup"), Op("navigation"),
                 Op("scroll"), Op("probe"), Op("resize"), Op("screenshot")>>],
    [name |-> "unnamed/part_002:264", teardown |-> "dotCatch",
     steps |-> <<Op("launch"), Op("newPage"), Op("setup"),
                 Op("navigationRetry"),
                 Quiet("scroll"), Quiet("probe"), Quiet("resize"),
                 Op("screenshot")>>],
    [name |-> "unnamed/part_003:17", teardown |-> "await",
     steps |-> <<Op("launch"), Op("newPage"), Op("setup"), Op("navigation"),
                 Op("scroll"), Op("probe"), Op("resize"), Op("screenshot")>>],
    [name |-> "unnamed/part_004:18", teardown |-> "dotCatch",
     steps |-> <<Op("launch"), Op("newPage"), Op("setup"),
                 Op("navigationRetry"),
                 Op("sections"), Op("closeBeforeStitch"), Op("stitch"),
                 Op("unlink")>>] >>

Sectioned == Len(CaptureDefs)    \* the definition of unnamed/part_004

\* the options argument: templateHeight and sectionHeight, absent or a number
OptionInputs ==
    {[templateHeight |-> Null, sectionHeight |-> Null]}
        \cup [templateHeight : {Some(H) : H \in 1..MaxHeight},
              sectionHeight : {Null} \cup {Some(h) : h \in 0..MaxSection}]

\* options.maxRetries: absent or a number
RetryOptions == {Null} \cup {Some(n) : n \in (-1)..MaxNavRetries}

\* the definitions that navigate with retries and a fallback
UsesNavigationRetry(d) ==
    \E p \in 1..Len(CaptureDefs[d].steps) :
        CaptureDefs[d].steps[p].op = "navigationRetry"

\* the options that definition d reads among those of the model
OptionInputsOf(d) ==
    {[templateHeight |-> o.templateHeight, sectionHeight |-> o.sectionHeight,
      maxRetries |-> n] :
        o \in (IF d = Sectioned THEN OptionInputs
               ELSE {[templateHeight |-> Null, sectionHeight |-> Null]}),
        n \in (IF UsesNavigationRetry(d) THEN RetryOptions ELSE {Null})}

\* option || fallback
OrDefault(option, fallback) ==
    IF option = Null \/ option[1] = 0 THEN fallback ELSE option[1]

Opts(options) ==
    [templateHeight |-> OrDefault(options.templateHeight, DefaultTemplateHeight),
     sectionHeight |-> OrDefault(options.sectionHeight, DefaultSectionHeight),
     maxRetries |-> OrDefault(options.maxRetries, 2)]

NoOptions == [templateHeight |-> Null, sectionHeight |-> Null, maxRetries |-> Null]

\* the awaits of the navigation, as they are logged in nav.log
Primary(ok) == [ev |-> "goto domcontentloaded", ms |-> 0, ok |-> ok]
Pause == [ev |-> "pause", ms |-> 5000, ok |-> TRUE]
Fallback(ok) == [ev |-> "goto load", ms |-> 0, ok |-> ok]

\* for (let attempt = 0; attempt <= opts.maxRetries; attempt++)
LoopContinues(attempt, maxRetries) == attempt <= maxRetries

\* mutant: the pause is taken after the last attempt too
MayRetryNavigationAlways(c) == TRUE

\* if (attempt < opts.maxRetries) in the catch block of the loop
MayRetryNavigation(c) == c.nav.attempt < c.opts.maxRetries

\* the navigation loop before its first pass: attempt = 0,
\* navigationSuccess = false, and whether attempt <= maxRetries holds
InitialNav(maxRetries) ==
    [attempt |-> 0, navigationSuccess |-> FALSE, log |-> <<>>,
     at |-> IF LoopContinues(0, maxRetries) THEN "goto" ELSE "fallback"]

\* what the height probe of landingsite-screenshot.js:230 measures in the
\* page; an element or container is found exactly if its bottom is above 0
Measures == {50 * u : u \in 0..MaxMeasure}

Measurements ==
    {m \in [lowestVisibleElement : BOOLEAN, maxHeight : Measures,
            tallestContainer : BOOLEAN, containerMaxHeight : Measures,
            documentHeight : Measures] :
        /\ m.lowestVisibleElement <=> m.maxHeight > 0
        /\ m.tallestContainer <=> m.containerMaxHeight > 0}

\* mutant: the container is asked before the element
finalHeightContainerFirst(m) ==
    IF m.tallestContainer /\ m.containerMaxHeight > 0
            /\ m.containerMaxHeight + 200 >= m.documentHeight
    THEN m.containerMaxHeight + 100
    ELSE IF m.lowestVisibleElement /\ m.maxHeight > 0
            /\ m.maxHeight + 200 >= m.documentHeight
    THEN m.maxHeight + 100
    ELSE m.documentHeight + 150

finalHeight(m) ==
    IF m.lowestVisibleElement /\ m.maxHeight > 0
            /\ m.maxHeight + 200 >= m.documentHeight
    THEN m.maxHeight + 100
    ELSE IF m.tallestContainer /\ m.containerMaxHeight > 0
            /\ m.containerMaxHeight + 200 >= m.documentHeight
    THEN m.containerMaxHeight + 100
    ELSE m.documentHeight + 150

\* the height used when the probe fails, where the definition recovers
FallbackHeight(c) ==
    IF CaptureDefs[c.def].name = "unnamed/part_002:264"
    THEN c.opts.templateHeight
    ELSE 8500

\* Math.floor(a / b) in place of Math.ceil
Floor(a, b) == a \div b

\* Math.ceil(a / b), a >= 0 and b > 0
Ceil(a, b) == IF a % b = 0 THEN a \div b ELSE (a \div b) + 1

numSectionsFloor(totalHeight, sectionHeight) == Floor(totalHeight, sectionHeight)

numSections(totalHeight, sectionHeight) == Ceil(totalHeight, sectionHeight)

\* band i of the loop, i counted from 0
sectionTop(i, sectionHeight) == i * sectionHeight

\* mutant: the last band gets the remainder of the division
currentSectionHeightRemainder(i, o) ==
    IF i = numSections(o.templateHeight, o.sectionHeight) - 1
    THEN o.templateHeight % o.sectionHeight
    ELSE o.sectionHeight

currentSectionHeight(i, o) ==
    IF i = numSections(o.templateHeight, o.sectionHeight) - 1
    THEN o.templateHeight - sectionTop(i, o.sectionHeight)
    ELSE o.sectionHeight

\* the inputs of sharp's composite, built from the section files in order
CompositeInputs(sectionFiles, sectionHeight) ==
    [p \in 1..Len(sectionFiles) |->
        [input |-> sectionFiles[p].file,
         top |-> (p - 1) * sectionHeight, left |-> 0]]

IdleCapture ==
    [def |-> 0, pc |-> 0, phase |-> "idle", browser |-> "unset",
     hung |-> FALSE, pageClosed |-> FALSE, swallowed |-> {},
     closeCalls |-> 0, written |-> 0, result |-> Null, settled |-> "pending",
     opts |-> Opts(NoOptions), nav |-> InitialNav(Opts(NoOptions).maxRetries),
     measured |-> Null, height |-> Null, heightFrom |-> "none",
     sectionFiles |-> <<>>, temp |-> {}, inputs |-> <<>>, canvasHeight |-> 0]

(***************************************************************************)
(* cli.js, command batch <file>.                                           *)
(***************************************************************************)
MaxCliIds == 3      \* identifiers in the file given to the batch command

\* the methods an instance of ScreenshotQueue has
ScreenshotQueueMethods == {"constructor", "processBatch", "processId"}

HasMethod(m) == m \in ScreenshotQueueMethods

\* the content of the file: JSON text, or text that JSON.parse rejects
Json(value) == [format |-> "json", value |-> value]
Text(lines) == [format |-> "text", lines |-> lines]

\* n identifiers, one per line, and the empty string after the last newline
Lines(n) == [p \in 1..(n + 1) |-> IF p <= n THEN "x" \o toString(p) ELSE ""]

CliFiles ==
    {Json(Undefined)}
        \cup {Json(Arr(Distinct(n))) : n \in 0..MaxCliIds}
        \cup {Text(Lines(n)) : n \in 0..MaxCliIds}

\* the options parseOptions returns
CliOptions ==
    [outputDir : {Null, Some("out")},
     concurrency : {Null} \cup {Some(c) : c \in 0..MaxConc},
     retries : {Null} \cup {Some(r) : r \in 0..MaxRetries}]

NonEmptyLine(line) == line # ""

\* the ids read from the file: the parsed JSON array, nothing for other JSON,
\* the non-empty lines otherwise
ReadIds(file) ==
    IF file.format = "json"
    THEN IF IsArray(file.value) THEN file.value.elems ELSE <<>>
    ELSE [p \in 1..Len(SelectSeq(file.lines, NonEmptyLine)) |->
            Str(SelectSeq(file.lines, NonEmptyLine)[p])]

\* the one argument cli.js passes to new ScreenshotQueue
QueueOptions(options) ==
    [t |-> "object",
     outputDir |-> IF options.outputDir = Null THEN "./screenshots"
                   ELSE options.outputDir[1],
     concurrency |-> OrDefault(options.concurrency, 1),
     retries |-> OrDefault(options.retries, 3)]

\* cli.js before it is run
NotStarted ==
    [phase |-> "notStarted", options |-> Null, ids |-> <<>>, queue |-> Null,
     error |-> Null,
     processed |-> 0, report |-> Null, exitCode |-> Null]

\* ---- two sectioned captures with output paths in one directory ----
MaxSharedBands == 2     \* most bands of a capture that shares the directory

SharedCalls == 1..2

\* the files section_0.png, section_1.png, ... of <dirname(outputPath)>/temp
TempFiles == 0..(MaxSharedBands - 1)

IdleShared ==
    [phase |-> "idle", n |-> 0, sectionFiles |-> <<>>, composed |-> <<>>,
     written |-> 0, result |-> Null]

\* temp[f] is the call whose band is in file f, 0 if the file does not exist
NothingShared ==
    [calls |-> [c \in SharedCalls |-> IdleShared],
     temp |-> [f \in TempFiles |-> 0]]

(***************************************************************************)
(* State of the process.                                                   *)
(***************************************************************************)
RECURSIVE SubmittedIds(_)
SubmittedIds(k) ==
    IF k = 0 THEN 0
    ELSE SubmittedIds(k - 1)
            + queues[runs[k].inst].batchStatuses[runs[k].batchId].total

Init ==
    /\ now = 1
    /\ queues = <<>>
    /\ runs = <<>>
    /\ protoStatuses = <<>>
    /\ res = [op |-> "none", code |-> 0, body |-> Null]
    /\ cap = IdleCapture
    /\ cli = NotStarted
    /\ shared = NothingShared

(***************************************************************************)
(* api-server.js                                                           *)
(***************************************************************************)
\* mutant: the validation forgets the empty array
InvalidIdsNoLengthCheck(ids) ==
    IF Falsy(ids) THEN TRUE ELSE ~IsArray(ids)

\* !ids || !Array.isArray(ids) || ids.length === 0
InvalidIds(ids) ==
    IF Falsy(ids) THEN TRUE
    ELSE IF ~IsArray(ids) THEN TRUE
    ELSE Len(ids.elems) = 0

\* POST /api/batch, rejected request
PostBatchInvalid(ids) ==
    /\ InvalidIds(ids)
    /\ res' = [op |-> "batch", code |-> 400,
               body |-> [error |-> "Missing or invalid IDs array"]]
    /\ UNCHANGED <<now, queues, runs, protoStatuses, cap, cli, shared>>

\* POST /api/batch past its validation; tId, tStart, tEnd are the readings of
\* Date.now() for the batch id, startTime and (if reached) endTime
Accept(body, tId, tStart, tEnd) ==
    /\ ~InvalidIds(body.ids)
    /\ now <= tId /\ tId <= tStart /\ tStart <= tEnd /\ tEnd <= MaxClock
    /\ LET ids == body.ids.elems
           concurrency == IF body.concurrency = Null THEN 1 ELSE body.concurrency[1]
           retries == IF body.retries = Null THEN 3 ELSE body.retries[1]
           batchId == toString(tId)
           i == Len(queues) + 1
           after == processBatch(NewQueue(concurrency, retries), i, batchId,
                                 ids, tStart, tEnd)
           done == after[1].batchStatuses[batchId].status = "completed"
       IN  /\ tEnd = tStart \/ done
           /\ queues' = Append(queues, after[1])
           /\ runs' = Append(runs, after[2])
           /\ now' = IF done THEN tEnd ELSE tStart
           /\ res' = [op |-> "batch", code |-> 200,
                      body |-> [success |-> TRUE, batchId |-> batchId,
                                totalItems |-> Len(ids)]]
    /\ UNCHANGED <<protoStatuses, cap, cli, shared>>

\* POST /api/batch, accepted request, within the bounds of the model
PostBatchAccepted(body, tId, tStart, tEnd) ==
    /\ Len(runs) < MaxBatches
    /\ ~InvalidIds(body.ids)
    /\ SubmittedIds(Len(runs)) + Len(body.ids.elems) <= MaxJobs
    /\ Accept(body, tId, tStart, tEnd)

PostBatch ==
    \/ \E ids \in IdsInputs : PostBatchInvalid(ids)
    \/ /\ Len(runs) < MaxBatches
       /\ \E body \in Bodies : \E tId, tStart, tEnd \in now..MaxClock :
                PostBatchAccepted(body, tId, tStart, tEnd)

\* res.json(value): JSON.stringify turns a function into no body at all
JsonOf(value) ==
    IF "t" \in DOMAIN value /\ value.t = "function" THEN Null ELSE value

\* GET /api/batch/:batchId/status
GetStatus(batchId) ==
    /\ LET status == getBatchStatus(batchId)
       IN  res' = IF status = Null
                  THEN [op |-> "status", code |-> 404,
                        body |-> [error |-> "Batch not found"]]
                  ELSE [op |-> "status", code |-> 200, body |-> JsonOf(status)]
    /\ UNCHANGED <<now, queues, runs, protoStatuses, cap, cli, shared>>

StatusIds == {toString(t) : t \in 1..MaxClock} \cup {"unknown-id", "constructor"}

GetBatchStatus == \E batchId \in StatusIds : GetStatus(batchId)

(***************************************************************************)
(* Asynchronous steps of a job.                                            *)
(***************************************************************************)
\* captureScreenshot of job j of run k settles and processId resumes
Settle(k, j, outcome) ==
    /\ runs[k].jobs[j].phase = "capturing"
    /\ LET r == runs[k]
           after == processId(queues[r.inst], r.batchId, r.jobs[j], outcome)
       IN  /\ queues' = [queues EXCEPT ![r.inst] = after[1]]
           /\ runs' = [runs EXCEPT ![k].jobs[j] = after[2]]
    /\ UNCHANGED <<now, protoStatuses, res, cap, cli, shared>>

CaptureSettles ==
    \E k \in 1..Len(runs) : \E j \in 1..Len(runs[k].jobs) :
        \E outcome \in Outcomes : Settle(k, j, outcome)

\* the .finally callback of job j of run k
Release(k, j, t) ==
    /\ runs[k].jobs[j].phase = "settled"
    /\ now <= t /\ t <= MaxClock
    /\ LET r == [runs[k] EXCEPT !.jobs[j].phase = "released"]
           q == [queues[r.inst] EXCEPT !.activeJobs = @ - 1]
           before == queues[r.inst].batchStatuses[r.batchId].status
           after == processNext(q, r, t)
           done == /\ before # "completed"
                   /\ after[1].batchStatuses[r.batchId].status = "completed"
       IN  /\ t = now \/ done
           /\ queues' = [queues EXCEPT ![r.inst] = after[1]]
           /\ runs' = [runs EXCEPT ![k] = after[2]]
           /\ now' = IF done THEN t ELSE now
    /\ UNCHANGED <<protoStatuses, res, cap, cli, shared>>

Finally ==
    \E k \in 1..Len(runs) : \E j \in 1..Len(runs[k].jobs) :
        \E t \in now..MaxClock : Release(k, j, t)

Next ==
    \/ PostBatch
    \/ GetBatchStatus
    \/ CaptureSettles
    \/ Finally

Spec == Init /\ [][Next]_vars

(***************************************************************************)
(* The server handling several submissions of one identifier each.         *)
(***************************************************************************)
MaxPairBatches == 2     \* accepted batch submissions of SpecPair

PairBodies ==
    [ids : {Arr(Distinct(1))}, concurrency : {Null}, retries : {Some(1)}]

PostBatchPair ==
    /\ Len(runs) < MaxPairBatches
    /\ \E body \in PairBodies : \E tId, tStart, tEnd \in now..MaxClock :
            Accept(body, tId, tStart, tEnd)

NextPair ==
    \/ PostBatchPair
    \/ GetBatchStatus
    \/ CaptureSettles
    \/ Finally

SpecPair == Init /\ [][NextPair]_vars

(***************************************************************************)
(* A ScreenshotQueue instance driven directly: new ScreenshotQueue(c, r)   *)
(* and then processBatch(batchId, ids), for up to MaxDirectBatches batches *)
(* on the one instance.                                                    *)
(***************************************************************************)
MaxDirectBatches == 2   \* processBatch calls on the instance
MaxDirectIds == 2       \* longest id list of such a call

DirectIdLists == {<<>>} \cup {Distinct(n) : n \in 1..MaxDirectIds}

\* new ScreenshotQueue(concurrency, retries)
Construct(concurrency, retries) ==
    /\ queues = <<>>
    /\ queues' = <<NewQueue(concurrency, retries)>>
    /\ UNCHANGED <<now, runs, protoStatuses, res, cap, cli, shared>>

NewScreenshotQueue ==
    \E concurrency \in 1..MaxConc : \E retries \in 1..2 :
        Construct(concurrency, retries)

\* queue.processBatch(batchId, ids) on the instance; the call returns once
\* processNext has admitted what the concurrency allows
DirectCall(ids, tStart, tEnd) ==
    /\ Len(queues) = 1
    /\ Len(runs) < MaxDirectBatches
    /\ now <= tStart /\ tStart <= tEnd /\ tEnd <= MaxClock
    /\ LET batchId == "b" \o toString(Len(runs) + 1)
           after == processBatch(queues[1], 1, batchId, ids, tStart, tEnd)
           done == after[1].batchStatuses[batchId].status = "completed"
       IN  /\ tEnd = tStart \/ done
           /\ queues' = <<after[1]>>
           /\ runs' = Append(runs, after[2])
           /\ now' = IF done THEN tEnd ELSE tStart
    /\ UNCHANGED <<protoStatuses, res, cap, cli, shared>>

CallProcessBatch ==
    \E ids \in DirectIdLists : \E tStart, tEnd \in now..MaxClock :
        DirectCall(ids, tStart, tEnd)

NextDirect ==
    \/ NewScreenshotQueue
    \/ CallProcessBatch
    \/ CaptureSettles
    \/ Finally

SpecDirect == Init /\ [][NextDirect]_vars

\* every capture settles, and every .finally callback is run by the event
\* loop once its promise has settled
FairSpecDirect == SpecDirect /\ WF_vars(CaptureSettles) /\ WF_vars(Finally)

(***************************************************************************)
(* One captureScreenshot call at a time, any definition, any step failing. *)
(***************************************************************************)
StepOutcomes == {"resolves", "throws"}

\* captureScreenshot(id, outputPath, options) up to its try
Call(d, options) ==
    /\ cap.phase \in {"idle", "settled"}
    /\ cap' = [IdleCapture EXCEPT !.def = d, !.pc = 1, !.phase = "try",
                                  !.opts = Opts(options),
                                  !.nav = InitialNav(Opts(options).maxRetries)]
    /\ UNCHANGED <<now, queues, runs, protoStatuses, res, cli, shared>>

CallCapture ==
    \E d \in 1..Len(CaptureDefs) : \E options \in OptionInputsOf(d) :
        Call(d, options)

\* mutant: the browser stays open until the finally block
ResolvedWithoutEarlyClose(c, op) ==
    CASE op = "launch" -> [c EXCEPT !.browser = "open"]
      [] op = "screenshot" -> [c EXCEPT !.written = @ + 1]
      [] op = "probe" -> [c EXCEPT !.heightFrom = "probe"]
      [] op = "stitch" ->
            [c EXCEPT !.inputs = CompositeInputs(c.sectionFiles,
                                                 c.opts.sectionHeight),
                      !.canvasHeight = c.opts.templateHeight,
                      !.written = @ + 1]
      [] OTHER -> c

\* what a resolved step leaves behind
Resolved(c, op) ==
    CASE op = "launch" -> [c EXCEPT !.browser = "open"]
      [] op = "screenshot" -> [c EXCEPT !.written = @ + 1]
      [] op = "probe" -> [c EXCEPT !.heightFrom = "probe"]
      [] op = "pageClose" -> [c EXCEPT !.pageClosed = TRUE]
      [] op = "closeBeforeStitch" ->
            IF c.browser = "open"
            THEN [c EXCEPT !.closeCalls = @ + 1, !.browser = "null"]
            ELSE c
      [] op = "stitch" ->
            [c EXCEPT !.inputs = CompositeInputs(c.sectionFiles,
                                                 c.opts.sectionHeight),
                      !.canvasHeight = c.opts.templateHeight,
                      !.written = @ + 1]
      [] OTHER -> c

\* what a step that threw leaves behind
Thrown(c, op) ==
    IF op = "closeBeforeStitch" /\ c.browser = "open"
    THEN [c EXCEPT !.closeCalls = @ + 1]
    ELSE c

\* what a step leaves behind whose fault was caught and logged on the spot
Recovered(c, op) ==
    IF op = "probe"
    THEN [c EXCEPT !.heightFrom = "fallback", !.height = Some(FallbackHeight(c)),
                   !.swallowed = @ \cup {op}]
    ELSE [c EXCEPT !.swallowed = @ \cup {op}]

\* the steps that have an action of their own
OwnSteps == {"sections", "navigationRetry", "rankedProbe", "unlink"}

\* the step after pc, or the return statement that ends the try block
Advance(c) ==
    IF c.pc = Len(CaptureDefs[c.def].steps)
    THEN [c EXCEPT !.phase = "finally",
                   !.result = [success |-> TRUE, error |-> Null]]
    ELSE [c EXCEPT !.pc = @ + 1]

\* mutant: the catch block returns a success result
CaughtAsSuccess(c, op) ==
    [c EXCEPT !.phase = "finally",
              !.result = [success |-> TRUE, error |-> Null]]

\* catch (error) { return { success: false, error: error.message, id } }
Caught(c, op) ==
    [c EXCEPT !.phase = "finally",
              !.result = [success |-> FALSE, error |-> Some(op)]]

Step(outcome) ==
    /\ cap.phase = "try"
    /\ ~cap.hung
    /\ LET step == CaptureDefs[cap.def].steps[cap.pc]
       IN  /\ step.op \notin OwnSteps
           /\ cap' = IF outcome = "resolves"
                     THEN Advance(Resolved(cap, step.op))
                     ELSE IF step.swallowed
                          THEN Advance(Recovered(cap, step.op))
                          ELSE Caught(Thrown(cap, step.op), step.op)
    /\ UNCHANGED <<now, queues, runs, protoStatuses, res, cli, shared>>

TryStep == \E outcome \in StepOutcomes : Step(outcome)

\* one pass of the loop over the sections: setViewport, scrollTo, screenshot
Section(outcome) ==
    /\ cap.phase = "try"
    /\ ~cap.hung
    /\ CaptureDefs[cap.def].steps[cap.pc].op = "sections"
    /\ LET i == Len(cap.sectionFiles)
           n == numSections(cap.opts.templateHeight, cap.opts.sectionHeight)
           band == [file |-> i, top |-> sectionTop(i, cap.opts.sectionHeight),
                    height |-> currentSectionHeight(i, cap.opts)]
           pushed == [cap EXCEPT !.sectionFiles = Append(@, band),
                                 !.temp = @ \cup {i}]
       IN  cap' = IF i >= n
                  THEN Advance(cap)
                  ELSE IF outcome = "throws"
                       THEN Caught(cap, "sections")
                       ELSE IF i + 1 = n THEN Advance(pushed) ELSE pushed
    /\ UNCHANGED <<now, queues, runs, protoStatuses, res, cli, shared>>

SectionStep == \E outcome \in StepOutcomes : Section(outcome)

\* one await of the navigation with retries: a page.goto of the loop, the
\* pause after a failed one, or the page.goto of the fallback
Navigate(outcome) ==
    /\ cap.phase = "try"
    /\ ~cap.hung
    /\ CaptureDefs[cap.def].steps[cap.pc].op = "navigationRetry"
    /\ cap.nav.at = "pause" => outcome = "resolves"
    /\ LET nav == cap.nav
           ok == outcome = "resolves"
       IN  cap' =
             CASE nav.at = "goto" /\ ok ->
                    Advance([cap EXCEPT !.nav.log = Append(@, Primary(TRUE)),
                                        !.nav.navigationSuccess = TRUE,
                                        !.nav.at = "done"])
               [] nav.at = "goto" /\ ~ok ->
                    IF MayRetryNavigation(cap)
                    THEN [cap EXCEPT !.nav.log = Append(@, Primary(FALSE)),
                                     !.nav.at = "pause"]
                    ELSE [cap EXCEPT !.nav.log = Append(@, Primary(FALSE)),
                                     !.nav.attempt = @ + 1,
                                     !.nav.at =
                                        IF LoopContinues(nav.attempt + 1,
                                                         cap.opts.maxRetries)
                                        THEN "goto" ELSE "fallback"]
               [] nav.at = "pause" ->
                    [cap EXCEPT !.nav.log = Append(@, Pause),
                                !.nav.attempt = @ + 1,
                                !.nav.at =
                                    IF LoopContinues(nav.attempt + 1,
                                                     cap.opts.maxRetries)
                                    THEN "goto" ELSE "fallback"]
               [] nav.at = "fallback" /\ ok ->
                    Advance([cap EXCEPT !.nav.log = Append(@, Fallback(TRUE)),
                                        !.nav.navigationSuccess = TRUE,
                                        !.nav.at = "done"])
               [] OTHER ->
                    Caught([cap EXCEPT !.nav.log = Append(@, Fallback(FALSE)),
                                       !.nav.at = "done"], "navigation")
    /\ UNCHANGED <<now, queues, runs, protoStatuses, res, cli, shared>>

NavigationStep == \E outcome \in StepOutcomes : Navigate(outcome)

\* the height probe of landingsite-screenshot.js:230: page.evaluate returns
\* the height selected from the measurement m, or rejects
Probe(outcome, m) ==
    /\ cap.phase = "try"
    /\ ~cap.hung
    /\ CaptureDefs[cap.def].steps[cap.pc].op = "rankedProbe"
    /\ cap' = IF outcome = "resolves"
              THEN Advance([cap EXCEPT !.measured = Some(m),
                                       !.height = Some(finalHeight(m)),
                                       !.heightFrom = "probe"])
              ELSE Caught(cap, "probe")
    /\ UNCHANGED <<now, queues, runs, protoStatuses, res, cli, shared>>

RankedProbe ==
    \/ \E m \in Measurements : Probe("resolves", m)
    \/ Probe("throws", CHOOSE m \in Measurements : TRUE)

\* for (const file of sectionFiles) fs.unlinkSync(file): all files are
\* removed, or unlinkSync throws at the file of index m and the files after
\* it stay
Unlink(m) ==
    /\ cap.phase = "try"
    /\ ~cap.hung
    /\ CaptureDefs[cap.def].steps[cap.pc].op = "unlink"
    /\ cap' = IF m = Len(cap.sectionFiles)
              THEN Advance([cap EXCEPT !.temp = {}])
              ELSE Caught([cap EXCEPT !.temp = {i \in @ : i >= m}], "unlink")
    /\ UNCHANGED <<now, queues, runs, protoStatuses, res, cli, shared>>

UnlinkStep == \E m \in 0..Len(cap.sectionFiles) : Unlink(m)

\* the steps awaited with no timeout: launch and page.goto are given
\* timeout: opts.timeout and reject when it passes, the waits are timers
UntimedSteps ==
    {"newPage", "setup", "scroll", "probe", "rankedProbe", "resize",
     "screenshot", "pageClose", "sections", "closeBeforeStitch", "stitch"}

\* the promise awaited at pc stays pending: nothing in captureScreenshot or
\* in processId races it against a timer, so the call stays at its await
Hang ==
    /\ cap.phase = "try"
    /\ ~cap.hung
    /\ CaptureDefs[cap.def].steps[cap.pc].op \in UntimedSteps
    /\ cap' = [cap EXCEPT !.hung = TRUE]
    /\ UNCHANGED <<now, queues, runs, protoStatuses, res, cli, shared>>

StepHangs == Hang

\* if (browser) in the finally block, on success only
BrowserOpenAfterSuccess(c) == c.browser = "open" /\ c.result.success

\* if (browser) in the finally block
BrowserOpen(c) == c.browser = "open"

\* the finally block; then the call settles
Teardown(outcome) ==
    /\ cap.phase = "finally"
    /\ cap' = IF BrowserOpen(cap)
              THEN [cap EXCEPT
                      !.phase = "settled",
                      !.closeCalls = @ + 1,
                      !.browser = IF outcome = "resolves" THEN "closed" ELSE @,
                      !.settled =
                          IF /\ outcome = "throws"
                             /\ CaptureDefs[cap.def].teardown = "await"
                          THEN "rejected" ELSE "fulfilled"]
              ELSE [cap EXCEPT !.phase = "settled", !.settled = "fulfilled"]
    /\ outcome = "throws" => BrowserOpen(cap)
    /\ UNCHANGED <<now, queues, runs, protoStatuses, res, cli, shared>>

FinallyStep == \E outcome \in StepOutcomes : Teardown(outcome)

NextCapture ==
    \/ CallCapture
    \/ TryStep
    \/ SectionStep
    \/ NavigationStep
    \/ RankedProbe
    \/ UnlinkStep
    \/ StepHangs
    \/ FinallyStep

SpecCapture == Init /\ [][NextCapture]_vars

\* the continuation of an await runs once the awaited promise has settled,
\* and the finally block runs once the try block has ended
FairSpecCapture ==
    /\ SpecCapture
    /\ WF_vars(TryStep) /\ WF_vars(SectionStep) /\ WF_vars(NavigationStep)
    /\ WF_vars(RankedProbe) /\ WF_vars(UnlinkStep) /\ WF_vars(FinallyStep)

(***************************************************************************)
(* node cli.js batch <file> [options]                                      *)
(***************************************************************************)
\* main() from the read of the file to new ScreenshotQueue({...})
Batch(file, options) ==
    /\ cli.phase = "notStarted"
    /\ LET ids == ReadIds(file)
       IN  cli' = IF Len(ids) = 0
                  THEN [cli EXCEPT !.phase = "exited",
                                   !.options = Some(options),
                                   !.error = Some("No IDs found in file"),
                                   !.exitCode = Some(1)]
                  ELSE [cli EXCEPT !.phase = "addIds", !.ids = ids,
                                   !.options = Some(options),
                                   !.queue = Some(NewQueue(QueueOptions(options), 3))]
    /\ UNCHANGED <<now, queues, runs, protoStatuses, res, cap, shared>>

CliBatch == \E file \in CliFiles : \E options \in CliOptions : Batch(file, options)

\* ids.forEach(id => queue.addId(id)): calling a method the instance does
\* not have throws a TypeError, which rejects main()
CliAddIds ==
    /\ cli.phase = "addIds"
    /\ ~HasMethod("addId")
    /\ cli' = [cli EXCEPT !.phase = "rejected",
                          !.error = Some("queue.addId is not a function")]
    /\ UNCHANGED <<now, queues, runs, protoStatuses, res, cap, shared>>

\* main().catch(error => { console.error(...); process.exit(1) })
CliCatch ==
    /\ cli.phase = "rejected"
    /\ cli' = [cli EXCEPT !.phase = "exited", !.exitCode = Some(1)]
    /\ UNCHANGED <<now, queues, runs, protoStatuses, res, cap, shared>>

NextCli ==
    \/ CliBatch
    \/ CliAddIds
    \/ CliCatch

SpecCli == Init /\ [][NextCli]_vars

(***************************************************************************)
(* Two calls of the sectioned captureScreenshot whose output paths are in  *)
(* one directory: both use <directory>/temp/section_<i>.png.               *)
(***************************************************************************)
\* call c leaves its try block through the catch block
SharedFailure(call, error) ==
    [call EXCEPT !.phase = "done",
                 !.result = [success |-> FALSE, error |-> Some(error)]]

\* call c is made and gets as far as the section loop, or fails before it
SharedStart(c, n, ok) ==
    /\ shared.calls[c].phase = "idle"
    /\ shared' = [shared EXCEPT !.calls[c] =
                    IF ok THEN [@ EXCEPT !.phase = "sections", !.n = n]
                    ELSE SharedFailure(@, "navigation")]
    /\ UNCHANGED <<now, queues, runs, protoStatuses, res, cap, cli>>

SharedStartStep ==
    \E c \in SharedCalls : \E n \in 1..MaxSharedBands : \E ok \in BOOLEAN :
        SharedStart(c, n, ok)

\* one pass of the section loop of call c: page.screenshot writes
\* section_<i>.png, whether or not the file exists
SharedSection(c, ok) ==
    /\ shared.calls[c].phase = "sections"
    /\ LET call == shared.calls[c]
           i == Len(call.sectionFiles)
       IN  shared' =
             IF ok
             THEN [shared EXCEPT
                     !.temp[i] = c,
                     !.calls[c].sectionFiles = Append(@, i),
                     !.calls[c].phase =
                         IF i + 1 = call.n THEN "close" ELSE "sections"]
             ELSE [shared EXCEPT !.calls[c] = SharedFailure(@, "sections")]
    /\ UNCHANGED <<now, queues, runs, protoStatuses, res, cap, cli>>

SharedSectionStep ==
    \E c \in SharedCalls : \E ok \in BOOLEAN : SharedSection(c, ok)

\* await browser.close() before stitching
SharedClose(c, ok) ==
    /\ shared.calls[c].phase = "close"
    /\ shared' = [shared EXCEPT !.calls[c] =
                    IF ok THEN [@ EXCEPT !.phase = "stitch"]
                    ELSE SharedFailure(@, "closeBeforeStitch")]
    /\ UNCHANGED <<now, queues, runs, protoStatuses, res, cap, cli>>

SharedCloseStep ==
    \E c \in SharedCalls : \E ok \in BOOLEAN : SharedClose(c, ok)

\* sharp(...).composite(inputs).toFile(outputPath): reads the section files
\* of call c as they are on disk now
SharedStitch(c, ok) ==
    /\ shared.calls[c].phase = "stitch"
    /\ LET call == shared.calls[c]
           missing == \E p \in DOMAIN call.sectionFiles :
                            shared.temp[call.sectionFiles[p]] = 0
       IN  shared' = [shared EXCEPT !.calls[c] =
                IF missing
                THEN SharedFailure(@, "stitch: input file is missing")
                ELSE IF ok
                THEN [@ EXCEPT
                        !.composed = [p \in DOMAIN call.sectionFiles |->
                                        shared.temp[call.sectionFiles[p]]],
                        !.written = 1,
                        !.phase = "unlink"]
                ELSE SharedFailure(@, "stitch")]
    /\ UNCHANGED <<now, queues, runs, protoStatuses, res, cap, cli>>

SharedStitchStep ==
    \E c \in SharedCalls : \E ok \in BOOLEAN : SharedStitch(c, ok)

\* for (const file of sectionFiles) fs.unlinkSync(file); return success:
\* unlinkSync throws at the first file that does not exist
SharedUnlink(c) ==
    /\ shared.calls[c].phase = "unlink"
    /\ LET call == shared.calls[c]
           gone == {p \in DOMAIN call.sectionFiles :
                        shared.temp[call.sectionFiles[p]] = 0}
           stop == IF gone = {} THEN Len(call.sectionFiles) + 1
                   ELSE CHOOSE p \in gone : \A q \in gone : p <= q
           deleted == {call.sectionFiles[p] : p \in 1..(stop - 1)}
       IN  shared' = [shared EXCEPT
                !.temp = [f \in TempFiles |-> IF f \in deleted THEN 0 ELSE @[f]],
                !.calls[c] =
                    IF gone = {}
                    THEN [@ EXCEPT !.phase = "done",
                                   !.result = [success |-> TRUE, error |-> Null]]
                    ELSE SharedFailure(@, "unlink: no such file")]
    /\ UNCHANGED <<now, queues, runs, protoStatuses, res, cap, cli>>

SharedUnlinkStep == \E c \in SharedCalls : SharedUnlink(c)

NextShared ==
    \/ SharedStartStep
    \/ SharedSectionStep
    \/ SharedCloseStep
    \/ SharedStitchStep
    \/ SharedUnlinkStep

SpecShared == Init /\ [][NextShared]_vars

(***************************************************************************)
(* Properties.                                                             *)
(***************************************************************************)
Runs == 1..Len(runs)
QueueOf(k) == queues[runs[k].inst]
RecordOf(k) == QueueOf(k).batchStatuses[runs[k].batchId]
Jobs(k) == 1..Len(runs[k].jobs)

Min(a, b) == IF a <= b THEN a ELSE b
Max(a, b) == IF a >= b THEN a ELSE b

\* the operations of run k that hold a slot: started and not yet released
InFlight(k) == {j \in Jobs(k) : runs[k].jobs[j].phase # "released"}

\* C1: with an integer concurrency c >= 1, activeJobs of a batch of n
\* identifiers on its own queue, and the number of its operations in flight,
\* stay within 0..min(c, n) in every reachable state.
C1_ActiveJobsBounded ==
    \A k \in Runs :
        QueueOf(k).concurrency >= 1 =>
            LET bound == Min(QueueOf(k).concurrency, RecordOf(k).total)
            IN  /\ 0 <= QueueOf(k).activeJobs
                /\ QueueOf(k).activeJobs <= bound
                /\ Cardinality(InFlight(k)) <= bound

\* C1 witness: concurrency 2, three identifiers, two operations active and
\* one identifier waiting
C1_Witness ==
    \E k \in Runs :
        /\ QueueOf(k).concurrency = 2
        /\ RecordOf(k).total = 3
        /\ QueueOf(k).activeJobs = 2
        /\ Len(runs[k].queue) = 1

\* C2: after every completion event the counters of the batch record agree
\* with its result lists, and completed never exceeds total.
C2_CountersMatchLists ==
    \A k \in Runs :
        LET s == RecordOf(k)
        IN  /\ s.completed = Len(s.results.success) + Len(s.results.failed)
            /\ s.successful = Len(s.results.success)
            /\ s.failed = Len(s.results.failed)
            /\ s.completed <= s.total

\* C2 witness: a batch still processing with one success and one failure
\* recorded and a third identifier unresolved
C2_Witness ==
    \E k \in Runs :
        LET s == RecordOf(k)
        IN  /\ s.status = "processing"
            /\ s.total = 3
            /\ Len(s.results.success) = 1
            /\ Len(s.results.failed) = 1

\* C3: a batch record with status completed has completed = total and
\* successful + failed = total, and no identifier of it is unresolved; the
\* outcome of an operation is in the record before its slot is released.
C3_CompletedMeansAllResolved ==
    \A k \in Runs :
        LET s == RecordOf(k)
        IN  /\ s.completed
                = Cardinality({j \in Jobs(k) : runs[k].jobs[j].phase # "capturing"})
            /\ s.status = "completed" =>
                    /\ s.completed = s.total
                    /\ s.successful + s.failed = s.total
                    /\ Len(runs[k].jobs) = s.total
                    /\ \A j \in Jobs(k) : runs[k].jobs[j].phase = "released"

\* C3 witness: a completed batch of three identifiers with both outcomes
C3_Witness ==
    \E k \in Runs :
        LET s == RecordOf(k)
        IN  /\ s.status = "completed"
            /\ s.total = 3
            /\ s.successful = 2
            /\ s.failed = 1

\* the record of run k is idle: nothing pending, nothing active
Drained(k) == Len(runs[k].queue) = 0 /\ QueueOf(k).activeJobs = 0

C4_State ==
    \A k \in Runs :
        LET s == RecordOf(k)
        IN  /\ s.status \in {"processing", "completed"}
            /\ (s.endTime = Null) <=> (s.status = "processing")
            /\ (s.status = "completed") <=> Drained(k)

C4_Step ==
    \A k \in Runs :
        RecordOf(k).status = "completed" =>
            /\ Len(runs') >= k
            /\ queues'[runs'[k].inst].batchStatuses[runs'[k].batchId] = RecordOf(k)

\* C4: a batch on its own queue is completed exactly from the first instant
\* at which nothing is pending and nothing is active; endTime is null exactly
\* while it is processing; and once the record is completed no step changes
\* any of its fields.
C4_CompletedOnceAndFrozen == [](C4_State) /\ [][C4_Step]_vars

\* C4 witness: a batch completed at clock reading 2 that started at reading 1
C4_Witness ==
    \E k \in Runs :
        LET s == RecordOf(k)
        IN  /\ s.status = "completed"
            /\ s.startTime = 1
            /\ s.endTime = Some(2)
            /\ s.total = 2

\* The scheduling the claims about termination assume: every capture attempt
\* settles, and the microtask queue runs every .finally callback.
FairSpec == Spec /\ WF_vars(CaptureSettles) /\ WF_vars(Finally)

\* every capture of run k succeeded on its first attempt
AllFirstTry(k) ==
    LET s == RecordOf(k)
    IN  /\ Len(s.results.failed) = 0
        /\ \A p \in 1..Len(s.results.success) : s.results.success[p].attempts = 1

C5_FirstTryResult ==
    \A k \in Runs :
        LET s == RecordOf(k)
        IN  (s.status = "completed" /\ AllFirstTry(k)) =>
                (s.successful = s.total /\ s.failed = 0)

\* C5: when every capture attempt terminates, a batch with concurrency >= 1
\* eventually has status completed; and if every capture succeeded on its
\* first attempt it ends with successful = total and failed = 0.
C5_EventuallyCompleted ==
    /\ \A k \in 1..MaxBatches :
            (Len(runs) >= k /\ QueueOf(k).concurrency >= 1)
                ~> (Len(runs) >= k /\ RecordOf(k).status = "completed")
    /\ [](C5_FirstTryResult)

\* C5 witness: Scenario A, three distinct identifiers with concurrency 2 and
\* retries 1, all captured at the first attempt, batch completed
C5_Witness ==
    \E k \in Runs :
        LET s == RecordOf(k)
        IN  /\ QueueOf(k).concurrency = 2
            /\ QueueOf(k).retries = 1
            /\ s.status = "completed"
            /\ s.total = 3
            /\ s.successful = 3
            /\ s.failed = 0
            /\ {runs[k].jobs[j].id : j \in Jobs(k)} = {Str("x1"), Str("x2"), Str("x3")}

RecordOfNext(k) == queues'[runs'[k].inst].batchStatuses[runs'[k].batchId]

C6_State ==
    \A k \in Runs :
        QueueOf(k).retries >= 1 =>
            LET s == RecordOf(k)
            IN  /\ \A j \in Jobs(k) : runs[k].jobs[j].calls <= QueueOf(k).retries
                /\ \A p \in 1..Len(s.results.failed) :
                        s.results.failed[p].attempts = QueueOf(k).retries
                /\ Len(s.results.success) + Len(s.results.failed)
                        = Cardinality({j \in Jobs(k) : runs[k].jobs[j].phase # "capturing"})

C6_Step ==
    \A k \in Runs : \A j \in Jobs(k) :
        \A outcome \in {o \in Outcomes : o.kind # "ok"} :
            (QueueOf(k).retries >= 1 /\ Settle(k, j, outcome)) =>
                LET job == runs[k].jobs[j]
                    after == runs'[k].jobs[j]
                    s == RecordOf(k)
                IN  IF job.calls < QueueOf(k).retries
                    THEN /\ RecordOfNext(k) = s
                         /\ after.calls = job.calls + 1
                         /\ after.phase = "capturing"
                    ELSE /\ job.calls = QueueOf(k).retries
                         /\ after.calls = job.calls
                         /\ after.phase = "settled"
                         /\ RecordOfNext(k).results.success = s.results.success
                         /\ RecordOfNext(k).results.failed =
                                Append(s.results.failed,
                                       [id |-> job.id, error |-> outcome.error,
                                        attempts |-> QueueOf(k).retries])

\* C6: with retries >= 1, an identifier whose capture fails at every attempt
\* (failure result or exception) is attempted exactly retries times: a failed
\* attempt before the last starts the next one and records nothing, the
\* failure of attempt number retries appends one entry to the failed list
\* with attempts = retries and the error of that attempt.
C6_ExactlyRetriesAttempts == [](C6_State) /\ [][C6_Step]_vars

\* C6 witness: Scenario B, one identifier, retries 3, three captures made and
\* one failed entry with attempts 3
C6_Witness ==
    \E k \in Runs :
        LET s == RecordOf(k)
        IN  /\ QueueOf(k).retries = 3
            /\ s.total = 1
            /\ Len(runs[k].jobs) = 1
            /\ runs[k].jobs[1].calls = 3
            /\ Len(s.results.failed) = 1
            /\ s.results.failed[1].attempts = 3
            /\ s.results.failed[1].error = "NavigationFailed"

\* C7: after a batch submission has returned batchId, getBatchStatus(batchId)
\* returns the record of that batch (processing or completed, total = number
\* of ids), never not-found.
C7_SubmittedBatchFound ==
    \A k \in Runs :
        LET s == getBatchStatus(runs[k].batchId)
        IN  IF s = Null THEN FALSE
            ELSE /\ s.status \in {"processing", "completed"}
                 /\ s.total = RecordOf(k).total

SubmittedBatchIds == {runs[k].batchId : k \in Runs}

C8_Step ==
    \A batchId \in StatusIds :
        GetStatus(batchId) =>
            /\ UNCHANGED <<queues, runs, protoStatuses>>
            /\ batchId \notin SubmittedBatchIds => res'.code = 404

\* C8: getBatchStatus of an identifier that was never submitted is not-found
\* (HTTP 404), and a status request changes no record and not the table.
C8_UnknownNotFoundPureRead == [][C8_Step]_vars

\* ids is missing, is not an array, or is an empty array
BadShape(ids) ==
    IF ids.t # "array" THEN TRUE ELSE Len(ids.elems) = 0

BodiesWith(ids) ==
    [ids : {ids},
     concurrency : {Null} \cup {Some(c) : c \in 0..MaxConc},
     retries : {Null} \cup {Some(r) : r \in (-1)..MaxRetries}]

\* the handler of POST /api/batch runs for a body with these ids
PostBatchOf(ids) ==
    \/ PostBatchInvalid(ids)
    \/ \E body \in BodiesWith(ids) : \E tId, tStart, tEnd \in now..MaxClock :
            PostBatchAccepted(body, tId, tStart, tEnd)

C9_Step ==
    \A ids \in {i \in IdsInputs : BadShape(i)} :
        PostBatchOf(ids) =>
            /\ res'.op = "batch"
            /\ res'.code = 400
            /\ "batchId" \notin DOMAIN res'.body
            /\ UNCHANGED <<now, queues, runs, protoStatuses>>

\* C9: a submission whose ids is missing, not an array or an empty array is
\* answered with HTTP 400 and changes nothing: no clock reading for a batch
\* id, no queue, no record, no capture.
C9_BadShapeRejected == [][C9_Step]_vars

\* C9 witness: a rejection was sent while an accepted batch is in flight
C9_Witness ==
    /\ res.op = "batch"
    /\ res.code = 400
    /\ \E k \in Runs : RecordOf(k).status = "processing" /\ InFlight(k) # {}

\* the identifiers run k was submitted with
IdsOf(k) == {runs[k].jobs[j].id : j \in Jobs(k)}
                \cup {runs[k].queue[p] : p \in 1..Len(runs[k].queue)}

\* C10: a submission whose ids holds an element that is not a string fails
\* with InvalidInput and starts no capture: no batch runs with such an id.
C10_NonStringIdsRejected ==
    \A k \in Runs : \A id \in IdsOf(k) : IsString(id)

\* C11: a batch submitted with concurrency <= 0 and a non-empty id list is
\* rejected or runs with an effective concurrency of 1: it is never left with
\* identifiers pending while no operation is active.
C11_NonPositiveConcurrencyNotStuck ==
    \A k \in Runs :
        QueueOf(k).concurrency <= 0 =>
            ~(Len(runs[k].queue) > 0 /\ QueueOf(k).activeJobs = 0)

\* C12: any two accepted batch submissions have different batch identifiers.
C12_BatchIdsDistinct ==
    \A k1, k2 \in Runs : k1 # k2 => runs[k1].batchId # runs[k2].batchId

Launched == cap.browser # "unset"

\* C13: in every captureScreenshot definition, once the browser has been
\* launched, browser.close() has been invoked on it when the call settles,
\* whichever step ended the try block and whether it returned or threw.
C13_BrowserClosedOnEveryExit ==
    (cap.phase = "settled" /\ Launched) => cap.closeCalls >= 1

\* a call that failed in the screenshot step, after the launch, has settled
C13_Witness ==
    /\ cap.phase = "settled"
    /\ cap.result = [success |-> FALSE, error |-> Some("screenshot")]
    /\ Launched
    /\ cap.closeCalls = 1

\* the number n with (n - 1) * h < H <= n * h
BandsNeeded(H, h) == CHOOSE n \in 1..H : (n - 1) * h < H /\ H <= n * h

SectionsDone ==
    cap.pc > 5 \/ (cap.phase \in {"finally", "settled"} /\ cap.result.success)

\* C14: sectioned capture of total height H with section height h uses
\* ceil(H / h) bands; band i is captured and composited at offset i * h, has
\* height h unless it is the last, and the last has H - (n - 1) * h; the
\* defaults 8295 and 2000 give 5 bands, the last 295 high.
C14_SectionBands ==
    (cap.def = Sectioned) =>
        LET H == cap.opts.templateHeight
            h == cap.opts.sectionHeight
            n == BandsNeeded(H, h)
            files == cap.sectionFiles
        IN  /\ Len(files) <= n
            /\ SectionsDone => Len(files) = n
            /\ \A p \in 1..Len(files) :
                    /\ files[p].top = (p - 1) * h
                    /\ files[p].height = IF p < n THEN h ELSE H - (n - 1) * h
            /\ cap.inputs # <<>> =>
                    /\ Len(cap.inputs) = n
                    /\ cap.canvasHeight = H
                    /\ \A p \in 1..n :
                            /\ cap.inputs[p].input = files[p].file
                            /\ cap.inputs[p].top = (p - 1) * h
            /\ (H = 8295 /\ h = 2000 /\ SectionsDone) =>
                    Len(files) = 5 /\ files[5].height = 295

\* the default heights, captured and stitched
C14_Witness ==
    /\ cap.def = Sectioned
    /\ cap.opts.templateHeight = 8295 /\ cap.opts.sectionHeight = 2000
    /\ Len(cap.inputs) = 5
    /\ cap.sectionFiles[5].height = 295

\* C15: a call that returns a failure result has not written outputPath, and
\* a call that returns success has written it exactly once.
C15_OutputWrittenOnlyOnSuccess ==
    (cap.phase = "settled" /\ cap.settled = "fulfilled") =>
        cap.written = IF cap.result.success THEN 1 ELSE 0

\* the id list of run k: the ids admitted so far, then the ids still pending
Submitted(k) == [j \in Jobs(k) |-> runs[k].jobs[j].id] \o runs[k].queue

Occurrences(seq, id) == Cardinality({p \in 1..Len(seq) : seq[p] = id})

Entries(k, id) ==
    LET results == RecordOf(k).results
    IN  Cardinality({p \in 1..Len(results.success) : results.success[p].id = id})
          + Cardinality({p \in 1..Len(results.failed) : results.failed[p].id = id})

\* C16: a batch starts one job per occurrence of an identifier in its list:
\* total is the length of the list with duplicates, no more jobs have been
\* started for an identifier than it has occurrences, and at completion the
\* success and failed lists hold one entry per occurrence.
C16_DuplicatesProcessedIndependently ==
    \A k \in Runs :
        /\ RecordOf(k).total = Len(Submitted(k))
        /\ RecordOf(k).status = "completed" =>
                \A p \in 1..Len(Submitted(k)) :
                    Entries(k, Submitted(k)[p])
                        = Occurrences(Submitted(k), Submitted(k)[p])

\* a completed batch whose list held the same identifier three times, with
\* entries in both lists
C16_Witness ==
    \E k \in Runs :
        /\ RecordOf(k).status = "completed"
        /\ Submitted(k) = Repeated(3)
        /\ Entries(k, Str("x1")) = 3
        /\ RecordOf(k).successful >= 1
        /\ RecordOf(k).failed >= 1

\* C17: a batch with an empty id list is completed by the processBatch call
\* itself: in every state in which its record exists the status is completed,
\* the counters are zero, the result lists are empty, endTime is set and no
\* capture attempt has been started for it.
C17_EmptyBatchCompletesInCall ==
    \A k \in Runs :
        RecordOf(k).total = 0 =>
            /\ RecordOf(k).status = "completed"
            /\ RecordOf(k).endTime # Null
            /\ RecordOf(k).completed = 0
            /\ RecordOf(k).successful = 0
            /\ RecordOf(k).failed = 0
            /\ RecordOf(k).results = [success |-> <<>>, failed |-> <<>>]
            /\ runs[k].jobs = <<>>

\* the step is the acceptance of a submission: a run has been added
Submission == Len(runs') = Len(runs) + 1

C18_Step ==
    /\ Submission =>
            LET k == Len(runs')
            IN  /\ res'.op = "batch" /\ res'.code = 200
                /\ res'.body.batchId = runs'[k].batchId
                /\ RecordOfNext(k).status = "processing"
                /\ RecordOfNext(k).completed = 0
                /\ RecordOfNext(k).results = [success |-> <<>>, failed |-> <<>>]
                /\ \A j \in 1..Len(runs'[k].jobs) :
                        /\ runs'[k].jobs[j].phase = "capturing"
                        /\ runs'[k].jobs[j].calls = 1
    /\ \A k \in Runs :
            RecordOfNext(k) # RecordOf(k) =>
                /\ res' = res
                /\ \E j \in Jobs(k) :
                        \/ /\ runs[k].jobs[j].phase = "capturing"
                           /\ runs'[k].jobs[j].phase = "settled"
                        \/ /\ runs[k].jobs[j].phase = "settled"
                           /\ runs'[k].jobs[j].phase = "released"

\* C18: when the submission answers with the batchId, the record exists with
\* status processing and completed = 0 and no capture has returned; every
\* later change of the record happens in the continuation of a capture that
\* returned, or in the .finally callback of its job, never in a request.
C18_SubmissionDoesNotWait == [][C18_Step]_vars

\* the submission has been answered while its captures are still running
C18_Witness ==
    \E k \in Runs :
        /\ res.op = "batch" /\ res.code = 200
        /\ res.body.batchId = runs[k].batchId
        /\ RecordOf(k).status = "processing"
        /\ RecordOf(k).completed = 0
        /\ Len(runs[k].jobs) = 2
        /\ \A j \in Jobs(k) : runs[k].jobs[j].phase = "capturing"

\* C19: the batch command, given a file with N >= 1 identifiers, runs all N
\* through ScreenshotQueue and exits after a report with total = N and
\* successful + failed = N, with exit code 1 exactly when failed > 0.
C19_CliBatchReports ==
    (cli.phase = "exited" /\ Len(cli.ids) >= 1) =>
        /\ cli.processed = Len(cli.ids)
        /\ cli.report # Null
        /\ cli.report[1].total = Len(cli.ids)
        /\ cli.report[1].successful + cli.report[1].failed = Len(cli.ids)
        /\ (cli.exitCode = Some(1)) <=> (cli.report[1].failed > 0)

\* C20: for a batch on its own queue with concurrency c >= 1, between the
\* handlers (after processBatch has returned and after each .finally callback
\* has returned) a non-empty pending queue implies activeJobs = c.
C20_NoIdleCapacity ==
    \A k \in Runs :
        (QueueOf(k).concurrency >= 1 /\ Len(runs[k].queue) > 0) =>
            QueueOf(k).activeJobs = QueueOf(k).concurrency

\* work is pending after a completion callback has admitted the next id
C20_Witness ==
    \E k \in Runs :
        /\ QueueOf(k).concurrency = 1
        /\ Len(runs[k].queue) = 1
        /\ QueueOf(k).activeJobs = 1
        /\ \E j \in Jobs(k) : runs[k].jobs[j].phase = "released"

\* C21: a capture attempt is bounded as a whole: a call in which an awaited
\* step never completes still ends, with a result and its browser closed.
C21_HungAttemptEnds ==
    (cap.phase = "try" /\ cap.hung) ~> (cap.phase = "settled")

\* C22: a fault of browser.close() does not change the outcome of the call:
\* the call never rejects, and no result reports the close of the browser
\* as its error.
C22_TeardownFaultNotPromoted ==
    (cap.phase = "settled") =>
        /\ cap.settled = "fulfilled"
        /\ cap.result.error # Some("closeBeforeStitch")

\* the counters and result lists of a record
Progress(s) ==
    [completed |-> s.completed, successful |-> s.successful,
     failed |-> s.failed, results |-> s.results]

\* the jobs of run k whose final outcome is written in this step
Finished(k) ==
    {j \in Jobs(k) : /\ runs[k].jobs[j].phase = "capturing"
                     /\ runs'[k].jobs[j].phase = "settled"}

C23_State ==
    \A k \in Runs :
        LET s == RecordOf(k)
        IN  /\ s.completed
                = Cardinality({j \in Jobs(k) : runs[k].jobs[j].phase # "capturing"})
            /\ \A p \in 1..Len(s.results.failed) :
                    s.results.failed[p].attempts >= QueueOf(k).retries

C23_Step ==
    \A k \in Runs :
        LET s == RecordOf(k)
            n == RecordOfNext(k)
        IN  /\ \A j \in Jobs(k) :
                    runs'[k].jobs[j].calls > runs[k].jobs[j].calls =>
                        /\ n = s
                        /\ runs'[k].jobs[j].phase = "capturing"
            /\ Progress(n) # Progress(s) =>
                    /\ Cardinality(Finished(k)) = 1
                    /\ n.completed = s.completed + 1
                    /\ Len(n.results.success) + Len(n.results.failed)
                            = Len(s.results.success) + Len(s.results.failed) + 1
                    /\ \A j \in Finished(k) :
                            IF n.failed = s.failed + 1
                            THEN /\ n.results.success = s.results.success
                                 /\ n.results.failed[Len(n.results.failed)].id
                                        = runs[k].jobs[j].id
                                 /\ runs[k].jobs[j].calls >= QueueOf(k).retries
                            ELSE /\ n.results.failed = s.results.failed
                                 /\ n.successful = s.successful + 1
                                 /\ n.results.success[Len(n.results.success)].id
                                        = runs[k].jobs[j].id
            /\ Progress(n) = Progress(s) => Finished(k) = {}

\* C23: a failed attempt that is retried changes nothing in the record; the
\* counters and result lists change exactly once per identifier occurrence,
\* in the step that writes its final outcome; an entry enters the failed list
\* only when the attempts made have reached retries.
C23_RecordMutatedOncePerId == [](C23_State) /\ [][C23_Step]_vars

\* a first attempt failed and the second is running: the record is untouched
C23_Witness ==
    \E k \in Runs :
        /\ Len(runs[k].jobs) = 1
        /\ runs[k].jobs[1].calls = 2
        /\ runs[k].jobs[1].phase = "capturing"
        /\ Progress(RecordOf(k))
                = [completed |-> 0, successful |-> 0, failed |-> 0,
                   results |-> [success |-> <<>>, failed |-> <<>>]]

Succeeded == [kind |-> "ok", error |-> ""]

C24_Step ==
    \A k \in Runs : \A j \in Jobs(k) :
        LET job == runs[k].jobs[j]
            after == runs'[k].jobs[j]
            s == RecordOf(k)
        IN  /\ Settle(k, j, Succeeded) =>
                    /\ after.phase = "settled"
                    /\ after.calls = job.calls
                    /\ RecordOfNext(k).results.failed = s.results.failed
                    /\ RecordOfNext(k).results.success =
                            Append(s.results.success,
                                   [id |-> job.id,
                                    path |-> "screenshots/" \o job.id.v \o ".png",
                                    attempts |-> job.calls])
            /\ job.phase # "capturing" => after.calls = job.calls

\* C24: when attempt k of an identifier is its first to succeed, the success
\* list receives one entry with attempts = k and the output path, and no
\* further capture is started for that identifier.
C24_FirstSuccessEndsAttempts == [][C24_Step]_vars

\* the second attempt of an identifier succeeded
C24_Witness ==
    \E k \in Runs :
        /\ Len(runs[k].jobs) = 1
        /\ runs[k].jobs[1].calls = 2
        /\ runs[k].jobs[1].phase = "released"
        /\ RecordOf(k).results.success
                = <<[id |-> Str("x1"), path |-> "screenshots/x1.png",
                     attempts |-> 2]>>

\* the captureScreenshot calls of a job that have not returned yet: the calls
\* started, less the attempts before the current one, less the current one
\* once the job is settled
AttemptsInProgress(job) ==
    job.calls - job.attempt - (IF job.phase = "capturing" THEN 0 ELSE 1)

C25_State ==
    \A k \in Runs :
        /\ \A j \in Jobs(k) :
                AttemptsInProgress(runs[k].jobs[j])
                    = IF runs[k].jobs[j].phase = "capturing" THEN 1 ELSE 0
        /\ QueueOf(k).activeJobs
                = Cardinality({j \in Jobs(k) : runs[k].jobs[j].phase # "released"})

C25_Step ==
    \A k \in Runs : \A j \in Jobs(k) :
        LET job == runs[k].jobs[j]
            after == runs'[k].jobs[j]
        IN  /\ after.calls # job.calls =>
                    /\ after.calls = job.calls + 1
                    /\ job.phase = "capturing"
                    /\ \E outcome \in {o \in Outcomes : o.kind # "ok"} :
                            Settle(k, j, outcome)
            /\ (job.phase # "released" /\ after.phase = "released") =>
                    /\ job.phase = "settled"
                    /\ after.calls = job.calls

\* C25: an identifier occurrence has at most one capture attempt in progress;
\* a further attempt starts only in the step in which the previous one has
\* returned a failure or thrown; its concurrency slot is held from admission
\* through all its attempts and given back only after the last one.
C25_AttemptsSequentialSlotHeld == [](C25_State) /\ [][C25_Step]_vars

\* two identifiers in flight at once, one at its first attempt and the other
\* at its second
C25_Witness ==
    \E k \in Runs :
        /\ Len(runs[k].jobs) = 2
        /\ runs[k].jobs[1].phase = "capturing" /\ runs[k].jobs[1].calls = 1
        /\ runs[k].jobs[2].phase = "capturing" /\ runs[k].jobs[2].calls = 2
        /\ QueueOf(k).activeJobs = 2

\* the ids of the jobs of run k, in the order of their admission
Admitted(k) == [j \in Jobs(k) |-> runs[k].jobs[j].id]

AdmittedNext(k) == [j \in 1..Len(runs'[k].jobs) |-> runs'[k].jobs[j].id]

\* every id list the requests of the model submit lists its ids in one
\* order (x1, x2, ...): the ids admitted so far followed by the ids still
\* pending is the submitted list only if the admissions followed that order
C26_State == \A k \in Runs : Admitted(k) \o runs[k].queue \in IdLists

\* each step admits the ids at the head of the pending queue, in their order
C26_Step ==
    \A k \in Runs :
        LET m == Len(runs'[k].jobs) - Len(runs[k].jobs)
        IN  /\ m >= 0 /\ m <= Len(runs[k].queue)
            /\ AdmittedNext(k) = Admitted(k) \o SubSeq(runs[k].queue, 1, m)
            /\ runs'[k].queue = SubSeq(runs[k].queue, m + 1, Len(runs[k].queue))

\* C26: the identifiers of a batch are admitted in the order of the submitted
\* id list, whatever the order in which the operations complete.
C26_AdmissionInListOrder == [](C26_State) /\ [][C26_Step]_vars

\* the second identifier finished first and the third was admitted after it
C26_Witness ==
    \E k \in Runs :
        /\ Admitted(k) = Distinct(3)
        /\ runs[k].jobs[1].phase = "capturing"
        /\ runs[k].jobs[2].phase = "released"
        /\ runs[k].jobs[3].phase = "capturing"

\* ---- navigation with retries and a fallback ----

NavLog == cap.nav.log

Primaries == {p \in DOMAIN NavLog : NavLog[p].ev = "goto domcontentloaded"}
Pauses == {p \in DOMAIN NavLog : NavLog[p].ev = "pause"}
Fallbacks == {p \in DOMAIN NavLog : NavLog[p].ev = "goto load"}

\* the position of the navigation among the steps of the running definition
NavPc == CHOOSE p \in 1..Len(CaptureDefs[cap.def].steps) :
            CaptureDefs[cap.def].steps[p].op = "navigationRetry"

\* the navigation is over: a later step has started or the call has left
\* the try block
NavigationOver == cap.pc > NavPc \/ (cap.pc = NavPc /\ cap.phase # "try")

\* C27: in a definition that navigates with retries, page.goto with
\* domcontentloaded is awaited at most maxRetries + 1 times; two consecutive
\* attempts are separated by one pause of 5000 ms and no pause follows the
\* last attempt; page.goto with load is awaited at most once, after
\* maxRetries + 1 failed attempts and nothing else, and exactly once when
\* the navigation is over and no attempt succeeded; the call fails with the
\* navigation error only after a failed fallback; no later step starts
\* unless a navigation succeeded.
C27_NavigationRetryProtocol ==
    (cap.def > 0 /\ UsesNavigationRetry(cap.def)) =>
        /\ Cardinality(Primaries) <= cap.opts.maxRetries + 1
        /\ \A p \in Primaries :
              p < Len(NavLog) =>
                /\ ~NavLog[p].ok
                /\ NavLog[p + 1].ev \in {"pause", "goto load"}
                /\ NavLog[p + 1].ev = "pause" <=>
                        Cardinality({q \in Primaries : q <= p})
                            < cap.opts.maxRetries + 1
        /\ \A p \in Pauses :
              /\ NavLog[p].ms = 5000
              /\ p > 1 /\ NavLog[p - 1].ev = "goto domcontentloaded"
              /\ IF p < Len(NavLog)
                 THEN NavLog[p + 1].ev = "goto domcontentloaded"
                 ELSE cap.phase = "try" /\ cap.pc = NavPc /\ cap.nav.at = "goto"
        /\ Cardinality(Fallbacks) <= 1
        /\ \A p \in Fallbacks :
              /\ p = Len(NavLog)
              /\ Cardinality(Primaries) = Max(cap.opts.maxRetries + 1, 0)
              /\ \A q \in Primaries : ~NavLog[q].ok
        /\ (NavigationOver /\ \A q \in Primaries : ~NavLog[q].ok)
              => Cardinality(Fallbacks) = 1
        /\ (cap.phase \in {"finally", "settled"}
                /\ cap.result.error = Some("navigation")) =>
              \E p \in Fallbacks : ~NavLog[p].ok
        /\ cap.pc > NavPc => \E p \in DOMAIN NavLog :
                                /\ NavLog[p].ev # "pause" /\ NavLog[p].ok
                                /\ cap.nav.navigationSuccess

\* a call whose three attempts failed, with two pauses, and whose fallback
\* succeeded has taken its screenshot
C27_Witness ==
    /\ cap.def > 0 /\ UsesNavigationRetry(cap.def)
    /\ NavLog = <<Primary(FALSE), Pause, Primary(FALSE), Pause,
                  Primary(FALSE), Fallback(TRUE)>>
    /\ cap.written = 1
    /\ cap.phase = "settled"

\* ---- ranked height selection ----

\* the element signal, or the container signal, agrees with the document
ElementAgrees(m) ==
    m.lowestVisibleElement /\ m.maxHeight > 0
        /\ m.maxHeight + 200 >= m.documentHeight

ContainerAgrees(m) ==
    m.tallestContainer /\ m.containerMaxHeight > 0
        /\ m.containerMaxHeight + 200 >= m.documentHeight

\* C28: the height the ranked probe returns for the measurement (E, C, D)
\* is E + 100 when a lowest element exists, E > 0 and E + 200 >= D;
\* otherwise C + 100 when a container exists, C > 0 and C + 200 >= D;
\* otherwise D + 150; it is above the signal it was taken from.
C28_RankedHeightSelection ==
    cap.measured # Null =>
        LET m == cap.measured[1]
            h == cap.height[1]
        IN  /\ ElementAgrees(m) => h = m.maxHeight + 100
            /\ (~ElementAgrees(m) /\ ContainerAgrees(m)) =>
                    h = m.containerMaxHeight + 100
            /\ (~ElementAgrees(m) /\ ~ContainerAgrees(m)) =>
                    h = m.documentHeight + 150
            /\ \/ h = m.maxHeight + 100 /\ h > m.maxHeight
               \/ h = m.containerMaxHeight + 100 /\ h > m.containerMaxHeight
               \/ h = m.documentHeight + 150 /\ h > m.documentHeight

\* a screenshot taken at the container's height: an element was found but
\* only the container agrees with the document
C28_Witness ==
    /\ cap.measured # Null
    /\ cap.written = 1
    /\ LET m == cap.measured[1]
       IN  /\ ~ElementAgrees(m) /\ m.lowestVisibleElement
           /\ ContainerAgrees(m)
           /\ m.containerMaxHeight # m.maxHeight
           /\ cap.height = Some(m.containerMaxHeight + 100)

\* C29: a failed height probe is never the failure of the call: no result
\* reports the probe as its error.
C29_ProbeFailureRecovered ==
    cap.phase \in {"finally", "settled"} => cap.result.error # Some("probe")

\* ---- order of the steps of sectioned capture ----

\* the bands of the running sectioned call
Bands == 0..(numSections(cap.opts.templateHeight, cap.opts.sectionHeight) - 1)

AllBandsCaptured ==
    {cap.sectionFiles[p].file : p \in DOMAIN cap.sectionFiles} = Bands

\* the browser was closed by the try block, not by the finally block
ClosedEarly == cap.closeCalls = 1 /\ cap.browser = "null"

Composited == cap.written = 1 /\ Len(cap.inputs) = Len(cap.sectionFiles)

SucceededSectioned ==
    cap.phase \in {"finally", "settled"} /\ cap.result.success

C30_State ==
    cap.def = Sectioned =>
        /\ (cap.phase = "try" /\ cap.closeCalls > 0) =>
                AllBandsCaptured /\ cap.temp = Bands
        /\ cap.written > 0 => AllBandsCaptured /\ ClosedEarly
        /\ (\E p \in DOMAIN cap.sectionFiles :
                cap.sectionFiles[p].file \notin cap.temp) => Composited
        /\ SucceededSectioned =>
                AllBandsCaptured /\ ClosedEarly /\ Composited /\ cap.temp = {}

C30_Step ==
    (cap.def = Sectioned /\ cap'.def = Sectioned /\ cap.phase = "try") =>
        /\ cap'.closeCalls > cap.closeCalls =>
                AllBandsCaptured /\ cap.written = 0
        /\ cap'.written > cap.written =>
                ClosedEarly /\ cap.temp = Bands
        /\ cap'.temp # cap.temp /\ cap'.temp \subseteq cap.temp =>
                Composited /\ ClosedEarly
        /\ (cap'.phase = "finally" /\ cap'.result.success) =>
                Composited /\ cap'.temp = {}

\* C30: in a sectioned capture every band is captured before the try block
\* closes the browser, the browser is closed before the composite is
\* written to outputPath, outputPath is written before a band file is
\* deleted, and no band file is left when the success result is returned.
C30_SectionedStepOrder == [](C30_State) /\ [][C30_Step]_vars

\* a sectioned capture of three bands has returned its success result
C30_Witness ==
    /\ cap.def = Sectioned
    /\ cap.phase = "settled" /\ cap.result.success
    /\ Len(cap.sectionFiles) = 3
    /\ cap.temp = {} /\ cap.written = 1 /\ cap.closeCalls = 1

\* ---- the bands tile the canvas ----

RECURSIVE SumHeights(_)
SumHeights(files) ==
    IF files = <<>> THEN 0
    ELSE files[1].height + SumHeights(Tail(files))

\* C31: for total height H >= 1 and section height h >= 1, once all bands
\* of a sectioned capture are taken, every band has a height in 1..h, band
\* i starts at i * h and is composited there, each band starts where the
\* one before it ends, the last band ends at H and the heights sum to H.
C31_BandsTileCanvas ==
    (cap.def = Sectioned /\ SectionsDone) =>
        LET H == cap.opts.templateHeight
            h == cap.opts.sectionHeight
            files == cap.sectionFiles
            n == Len(files)
        IN  /\ H >= 1 /\ h >= 1
            /\ n >= 1
            /\ \A p \in 1..n :
                    /\ files[p].height \in 1..h
                    /\ files[p].top = (p - 1) * h
                    /\ files[p].top + files[p].height <= H
                    /\ p < n => files[p].top + files[p].height = files[p + 1].top
                    /\ cap.inputs # <<>> => cap.inputs[p].top = files[p].top
            /\ files[n].top + files[n].height = H
            /\ SumHeights(files) = H
            /\ cap.inputs # <<>> => cap.canvasHeight = H

\* a height that is a multiple of the section height, stitched from two
\* full bands
C31_Witness ==
    /\ cap.def = Sectioned
    /\ cap.opts.templateHeight = 2 * cap.opts.sectionHeight
    /\ Len(cap.inputs) = 2
    /\ cap.sectionFiles[2].height = cap.opts.sectionHeight
    /\ cap.phase = "settled" /\ cap.result.success

\* ---- two batches on one ScreenshotQueue instance ----

\* processBatch call k on the instance has been made, with identifiers
Called(k) == Len(runs) >= k /\ RecordOf(k).total > 0

\* all identifiers of call k are admitted and its record is completed
Served(k) ==
    /\ Len(runs) >= k
    /\ runs[k].queue = <<>>
    /\ RecordOf(k).status = "completed"

\* C32: each processBatch call made on one instance with a non-empty id
\* list, while every capture settles, gets all its identifiers admitted and
\* its record to status completed.
C32_SharedInstanceBatchesComplete ==
    \A k \in 1..MaxDirectBatches : Called(k) ~> Served(k)

\* ---- output paths of concurrent captures ----

\* the jobs of run k whose captureScreenshot call is in flight
Capturing(k) == {j \in Jobs(k) : runs[k].jobs[j].phase = "capturing"}

\* C34: two captures of one batch that are in flight at the same time have
\* different output paths.
C34_ConcurrentOutputPathsDistinct ==
    \A k \in Runs : \A j1, j2 \in Capturing(k) :
        j1 # j2 => OutputPath(runs[k].jobs[j1].id) # OutputPath(runs[k].jobs[j2].id)

\* ---- sectioned captures that share a temp directory ----

\* the band files call c has captured and not yet composited
Pending(c) ==
    IF shared.calls[c].phase \in {"sections", "close", "stitch"}
    THEN {shared.calls[c].sectionFiles[p] :
            p \in DOMAIN shared.calls[c].sectionFiles}
    ELSE {}

\* C33: of two sectioned captures at work in one directory, each finds its
\* band files as it wrote them until it has composited them, composites
\* only bands it captured itself, and does not fail for a band file that
\* is gone.
C33_TempFilesNotShared ==
    \A c \in SharedCalls :
        LET call == shared.calls[c]
        IN  /\ \A f \in Pending(c) : shared.temp[f] = c
            /\ \A p \in DOMAIN call.composed : call.composed[p] = c
            /\ call.phase = "done" =>
                    call.result.error \notin
                        {Some("stitch: input file is missing"),
                         Some("unlink: no such file")}

\* C35: when a sectioned capture has returned, with success or with
\* failure, none of the band files it created is left in the temp directory.
C35_NoTempFilesAfterReturn ==
    (cap.def = Sectioned /\ cap.phase = "settled") => cap.temp = {}

\* C36: the height the ranked probe returns is at least the document
\* height it measured.
C36_SelectedHeightCoversDocument ==
    cap.measured # Null => cap.height[1] >= cap.measured[1].documentHeight

\* ---- the first definition of landingsite-screenshot.js ----

\* the call under observation is one of the first definition
First == cap.def = 1

\* C37: a call of the first definition that has settled has fulfilled with
\* one result whose success field is true or false, whichever step failed,
\* browser.close() included; success is true only if the screenshot was
\* written and page.close() completed.
C37_FirstDefinitionAlwaysResolves ==
    (First /\ cap.phase = "settled") =>
        /\ cap.settled = "fulfilled"
        /\ cap.result # Null
        /\ cap.result.success \in BOOLEAN
        /\ cap.result.success => (cap.written = 1 /\ cap.pageClosed)
        /\ ~cap.result.success => cap.result.error # Null

\* page.close() failed after the screenshot and browser.close() failed in
\* the finally block: the call has fulfilled with a failure result
C37_Witness ==
    /\ First /\ cap.phase = "settled"
    /\ cap.settled = "fulfilled"
    /\ cap.result = [success |-> FALSE, error |-> Some("pageClose")]
    /\ cap.written = 1
    /\ cap.closeCalls = 1 /\ cap.browser = "open"

\* the position of page.goto among the steps of the first definition
GotoPc == CHOOSE p \in 1..Len(CaptureDefs[1].steps) :
            CaptureDefs[1].steps[p].op = "navigation"

C38_State ==
    (First /\ cap.phase \in {"finally", "settled"}) =>
        /\ cap.result.error # Some("navigation")
        /\ cap.result.success <=> (cap.written = 1 /\ cap.pageClosed)

C38_Step ==
    (First /\ cap.phase = "try" /\ cap.pc = GotoPc /\ cap' # cap) =>
        /\ cap'.def = 1 /\ cap'.phase = "try"
        /\ cap'.pc = GotoPc + 1

\* C38: in the first definition a failed page.goto is not the failure of
\* the call and page.goto is awaited once: whatever its outcome the next
\* step is the scroll pass, and the call returns success exactly if the
\* screenshot and page.close() completed.
C38_GotoFaultIgnored == [](C38_State) /\ [][C38_Step]_vars

\* page.goto failed and the call returned success with its screenshot
C38_Witness ==
    /\ First /\ cap.phase = "settled"
    /\ "navigation" \in cap.swallowed
    /\ cap.result.success
    /\ cap.written = 1

\* ---- attempts for every retries value ----

\* the attempts made for an identifier whose capture always fails
AttemptsAllowed(k) == Max(1, QueueOf(k).retries)

C39_State ==
    \A k \in Runs :
        /\ \A j \in Jobs(k) : runs[k].jobs[j].calls \in 1..AttemptsAllowed(k)
        /\ \A p \in 1..Len(RecordOf(k).results.failed) :
                RecordOf(k).results.failed[p].attempts = AttemptsAllowed(k)

C39_Step ==
    \A k \in Runs : \A j \in Jobs(k) :
        \A outcome \in {o \in Outcomes : o.kind # "ok"} :
            Settle(k, j, outcome) =>
                IF runs[k].jobs[j].calls < AttemptsAllowed(k)
                THEN /\ runs'[k].jobs[j].calls = runs[k].jobs[j].calls + 1
                     /\ runs'[k].jobs[j].phase = "capturing"
                ELSE /\ runs'[k].jobs[j].calls = AttemptsAllowed(k)
                     /\ runs'[k].jobs[j].phase = "settled"
                     /\ RecordOfNext(k).results.failed =
                            Append(RecordOf(k).results.failed,
                                   [id |-> runs[k].jobs[j].id,
                                    error |-> outcome.error,
                                    attempts |-> AttemptsAllowed(k)])

\* C39: for every retries value, 0 and negative values included, every
\* identifier gets at least one capture attempt, an identifier whose
\* attempts all fail gets exactly max(1, retries) of them, and its failed
\* entry carries attempts = max(1, retries), which is 1 for retries <= 0.
C39_AttemptsForEveryRetries == [](C39_State) /\ [][C39_Step]_vars

\* a completed batch with retries -1 whose first failure is recorded with
\* attempts 1 after one capture
C39_Witness ==
    \E k \in Runs :
        /\ QueueOf(k).retries = -1
        /\ RecordOf(k).status = "completed"
        /\ Len(runs[k].jobs) >= 1
        /\ \A j \in Jobs(k) : runs[k].jobs[j].calls = 1
        /\ Len(RecordOf(k).results.failed) >= 1
        /\ RecordOf(k).results.failed[1].attempts = 1
====
